---- MODULE Spec2Model ----
(***************************************************************************)
(* A model of the report pipeline of justino_tjpe                          *)
(* (backend/preprocessing/process_report_pipeline.py): page grouping,      *)
(* chunking, the 4-worker summarization pool, report building and the      *)
(* file cache keyed by the SHA-256 digest of the PDF bytes.                *)
(*                                                                         *)
(* A text (a Python str) is a sequence of character codes.  The codes that *)
(* the code treats specially keep their ASCII value (LF, CR, the quotes);  *)
(* a keyword, a process number, a fixed message or the body of a model     *)
(* answer is one code of its own.                                          *)
(***************************************************************************)
EXTENDS Integers, Sequences, FiniteSets, TLC

\* ------------------------------------------------------------ bounds
\* Longest page sequence the grouping specification enumerates.
MaxPages == 4
\* Number of generate calls one behaviour of the pipeline specifications makes.
MaxCalls == 2
\* Longest page text, in words, the classification specification enumerates.
MaxWords == 2
\* Longest section text and largest fallback_chars the chunking specification
\* enumerates (the unit is 1000 characters).
MaxText == 10
MaxFallback == 4
\* Most hits the vector index answers with, and the highest rerank score, in
\* the retrieval specifications.
MaxHits == 3
MaxScore == 2

\* ------------------------------------------------------------ characters
LF == 10
CR == 13
SPACE == 32
DQUOTE == 34
SQUOTE == 39
\* One occurrence of the artifact "TextBlock(...)" in a model answer.
ARTIFACT == 64
\* The body of page number i is one code of its own.
PageBody(i) == 1000 + i

None == <<-1>>

Whitespace == {LF, CR, SPACE}
Quotes == {DQUOTE, SQUOTE}

\* ------------------------------------------------------------ str helpers
RECURSIVE Join(_, _)
\* sep.join(parts)
Join(parts, sep) ==
    IF parts = <<>> THEN <<>>
    ELSE IF Len(parts) = 1 THEN parts[1]
    ELSE parts[1] \o sep \o Join(Tail(parts), sep)

RECURSIVE LStrip(_, _)
LStrip(t, chars) ==
    IF t # <<>> /\ t[1] \in chars THEN LStrip(Tail(t), chars) ELSE t

RECURSIVE RStrip(_, _)
RStrip(t, chars) ==
    IF t # <<>> /\ t[Len(t)] \in chars
    THEN RStrip(SubSeq(t, 1, Len(t) - 1), chars) ELSE t

\* str.strip(): leading and trailing whitespace removed.
Strip(t) == RStrip(LStrip(t, Whitespace), Whitespace)

\* str.strip('"\''): leading and trailing quote characters removed.
StripQuotes(t) == RStrip(LStrip(t, Quotes), Quotes)

\* str.startswith
StartsWith(t, p) == Len(p) <= Len(t) /\ SubSeq(t, 1, Len(p)) = p

Contains(t, c) == \E i \in 1..Len(t) : t[i] = c

\* Upper-case letters are the codes 201..299, their lower case 101..199.
LowerChar(c) == IF c \in 201..299 THEN c - 100 ELSE c

\* str.lower()
Lower(t) == [i \in 1..Len(t) |-> LowerChar(t[i])]

\* ------------------------------------------------------------ classify_page
\* The keyword table in its dict order; each keyword is one code, the
\* accented and the unaccented spelling are two codes.
PIECE_KWS ==
    << [lab |-> "peticao_inicial", kws |-> {101, 102}],
       [lab |-> "contestacao",     kws |-> {103, 104}],
       [lab |-> "decisao",         kws |-> {105, 106}],
       [lab |-> "despacho",        kws |-> {107}],
       [lab |-> "sentenca",        kws |-> {108, 109}],
       [lab |-> "replica",         kws |-> {110, 111}] >>

RECURSIVE ClassifyFrom(_, _)
ClassifyFrom(low, k) ==
    IF k > Len(PIECE_KWS) THEN "outros"
    ELSE IF \E kw \in PIECE_KWS[k].kws : Contains(low, kw) THEN PIECE_KWS[k].lab
    ELSE ClassifyFrom(low, k + 1)

\* classify_page without txt.lower().
ClassifyCaseSensitive(txt) == ClassifyFrom(txt, 1)

classify_page(txt) == ClassifyFrom(Lower(txt), 1)

\* ------------------------------------------------------------ extract_process_number
\* A number is the sequence of its digit runs (the length of each run) and
\* of the separators between them.
DASH == -1
DOT == -2

CNJ == <<7, DASH, 2, DOT, 4, DOT, 1, DOT, 2, DOT, 4>>
CNJ_LONG == <<10, DASH, 2, DOT, 4, DOT, 1, DOT, 2, DOT, 4>>
OLD_FORMAT == <<4, DOT, 2, DOT, 6, DASH, 1>>

\* A number-like token of a text is one code: the word before the number and
\* the number.
\*   301  0000000-00.0000.0.00.0000
\*   302  0000000000-00.0000.0.00.0000
\*   303  0000.00.000000-0
\*   304  processo 12345
\*   305  processo 12.345.678-9
\*   306  processo eletrônico nº 0000000-00.0000.0.00.000000
\*   307  número: 0000000-00.0000.0.00.0000      (the number of 301)
\*   308  autos 0000.00.000000-0                 (the number of 303)
\*   309  1111111-11.1111.1.11.1111
\* The codes 314-316 are the numbers of 304-306 without the word, 317 is the
\* number of 306 without its last two digits.
NumberTokens == {301, 302, 303, 304, 305, 306, 307, 308, 309}

TokenWord(tok) ==
    CASE tok \in {304, 305} -> "processo"
      [] tok = 306 -> "processo eletronico n"
      [] tok = 307 -> "numero"
      [] tok = 308 -> "autos"
      [] OTHER -> ""

\* The number of a token, without the word.
Bare(tok) ==
    CASE tok \in {304, 305, 306} -> tok + 10
      [] tok = 307 -> 301
      [] tok = 308 -> 303
      [] OTHER -> tok

NumberShape(number) ==
    CASE number \in {301, 309, 317} -> CNJ
      [] number = 302 -> CNJ_LONG
      [] number = 303 -> OLD_FORMAT
      [] number = 314 -> <<5>>
      [] number = 315 -> <<2, DOT, 3, DOT, 3, DASH, 1>>
      [] number = 316 -> <<7, DASH, 2, DOT, 4, DOT, 1, DOT, 2, DOT, 6>>
      [] OTHER -> <<>>

RECURSIVE CharLen(_)
\* len(number)
CharLen(sh) ==
    IF sh = <<>> THEN 0
    ELSE (IF sh[1] > 0 THEN sh[1] ELSE 1) + CharLen(Tail(sh))

\* A pattern between two \b matches the number whose runs are those of pat
\* (no number of this model holds more runs around such a pattern).
WholeMatch(sh, pat) == sh = pat

\* A pattern without a closing \b, at the start of the number (re.match, or
\* a capture group after a word): the last run may go on.
PrefixMatch(sh, pat) ==
    /\ Len(sh) >= Len(pat)
    /\ SubSeq(sh, 1, Len(pat) - 1) = SubSeq(pat, 1, Len(pat) - 1)
    /\ sh[Len(pat)] >= pat[Len(pat)]

\* What a capture group that is a pattern without a closing \b keeps of the
\* number: the number up to the end of the pattern.
Captured(number) == IF number = 316 THEN 317 ELSE number

\* re.findall(patterns[p], text)[0] on the token alone: the matched text, or
\* the text of the capture group, or None.
PatternMatch(p, tok) ==
    LET sh == NumberShape(Bare(tok))
        w == TokenWord(tok)
    IN CASE p = 1 /\ WholeMatch(sh, CNJ) -> <<Bare(tok)>>
         [] p = 2 /\ WholeMatch(sh, CNJ_LONG) -> <<Bare(tok)>>
         [] p = 3 /\ WholeMatch(sh, OLD_FORMAT) -> <<Bare(tok)>>
         [] p = 4 /\ w \in {"numero", "processo", "autos"} /\ PrefixMatch(sh, CNJ)
              -> <<Captured(Bare(tok))>>
         [] p = 5 /\ w \in {"processo", "autos"} /\ CharLen(sh) >= 2 -> <<Bare(tok)>>
         [] p = 6 /\ w = "processo eletronico n" /\ PrefixMatch(sh, CNJ)
              -> <<Captured(Bare(tok))>>
         [] OTHER -> None

PatternMatches(p) == {tok \in NumberTokens : PatternMatch(p, tok) # None}

\* Lines 96-101: a CNJ prefix, a long CNJ prefix, or more than 10 characters.
PassesValidation(number) ==
    LET sh == NumberShape(number) IN
    \/ PrefixMatch(sh, CNJ)
    \/ PrefixMatch(sh, CNJ_LONG)
    \/ CharLen(sh) > 10

RECURSIVE FirstMatch(_, _, _)
\* re.findall(pattern, text)[0], or None
FirstMatch(t, p, i) ==
    IF i > Len(t) THEN None
    ELSE IF t[i] \in PatternMatches(p) THEN PatternMatch(p, t[i])
    ELSE FirstMatch(t, p, i + 1)

RECURSIVE ExtractFrom(_, _)
ExtractFrom(low, p) ==
    IF p > 6 THEN None
    ELSE LET m == FirstMatch(low, p, 1) IN
         IF m # None /\ PassesValidation(m[1]) THEN m
         ELSE ExtractFrom(low, p + 1)

extract_process_number(first_page_text) ==
    IF first_page_text = <<>> THEN None
    ELSE ExtractFrom(Lower(first_page_text), 1)

\* ------------------------------------------------------------ group_pages
\* groups is the dict in insertion order: a sequence of [lab, blocos].
HasKey(groups, key) == \E k \in 1..Len(groups) : groups[k].lab = key

\* groups.setdefault(key, []).append(text)
SetDefaultAppend(groups, key, text) ==
    IF HasKey(groups, key)
    THEN [k \in 1..Len(groups) |->
            IF groups[k].lab = key
            THEN [groups[k] EXCEPT !.blocos = Append(@, text)]
            ELSE groups[k]]
    ELSE Append(groups, [lab |-> key, blocos |-> <<text>>])

\* cur or "outros"
CurOrOutros(cur) == IF cur = "None" THEN "outros" ELSE cur

\* The loop body without the flush of lines 125-127.
GroupLoopBodyNoFlush(st, content) ==
    LET lab == classify_page(content) IN
    [groups |-> st.groups, cur |-> lab, buf |-> Append(st.buf, content)]

\* One iteration of the loop of lines 114-130 on state st = [groups, cur, buf].
GroupLoopBody(st, content) ==
    LET lab == classify_page(content) IN
    IF lab # st.cur
    THEN [groups |-> IF st.buf # <<>>
                     THEN SetDefaultAppend(st.groups, CurOrOutros(st.cur),
                                           Join(st.buf, <<LF>>))
                     ELSE st.groups,
          cur |-> lab,
          buf |-> <<content>>]
    ELSE [st EXCEPT !.buf = Append(@, content)]

RECURSIVE GroupLoop(_, _, _)
GroupLoop(st, pages, i) ==
    IF i > Len(pages) THEN st
    ELSE GroupLoop(GroupLoopBody(st, pages[i]), pages, i + 1)

\* group_pages with the extraction done on every page, the last one kept.
GroupPagesEveryPage(pages) ==
    LET st == GroupLoop([groups |-> <<>>, cur |-> "None", buf |-> <<>>], pages, 1)
        final == IF st.buf # <<>>
                 THEN SetDefaultAppend(st.groups, CurOrOutros(st.cur),
                                       Join(st.buf, <<LF>>))
                 ELSE st.groups
    IN [groups |-> final,
        process_number |-> IF pages = <<>> THEN None
                           ELSE extract_process_number(pages[Len(pages)])]

\* group_pages(pages, cfg) -> (groups, process_number); pages are the
\* page_content texts in page order.
group_pages(pages) ==
    LET st == GroupLoop([groups |-> <<>>, cur |-> "None", buf |-> <<>>], pages, 1)
        final == IF st.buf # <<>>
                 THEN SetDefaultAppend(st.groups, CurOrOutros(st.cur),
                                       Join(st.buf, <<LF>>))
                 ELSE st.groups
    IN [groups |-> final,
        process_number |-> IF pages = <<>> THEN None
                           ELSE extract_process_number(pages[1])]

\* ------------------------------------------------------------ chunks (generate, 469-495)
RECURSIVE SlicesNoRemainder(_, _)
\* The slices of n characters without the shorter slice at the end.
SlicesNoRemainder(t, n) ==
    IF Len(t) < n THEN <<>>
    ELSE <<SubSeq(t, 1, n)>> \o SlicesNoRemainder(SubSeq(t, n + 1, Len(t)), n)

RECURSIVE Slices(_, _)
\* [t[i : i + n] for i in range(0, len(t), n)]
Slices(t, n) ==
    IF t = <<>> THEN <<>>
    ELSE IF Len(t) <= n THEN <<t>>
    ELSE <<SubSeq(t, 1, n)>> \o Slices(SubSeq(t, n + 1, Len(t)), n)

\* The parts of one section (lines 477-486).
SectionParts(blocos, fallback_chars) ==
    LET texto_secao == Join(blocos, <<LF>>) IN
    IF Len(texto_secao) > fallback_chars
    THEN Slices(texto_secao, fallback_chars)
    ELSE <<texto_secao>>

RECURSIVE ChunksFrom(_, _, _)
ChunksFrom(grupos, k, fallback_chars) ==
    IF k > Len(grupos) THEN <<>>
    ELSE LET parts == SectionParts(grupos[k].blocos, fallback_chars) IN
         [j \in 1..Len(parts) |-> [label |-> grupos[k].lab, part |-> parts[j]]]
         \o ChunksFrom(grupos, k + 1, fallback_chars)

\* chunks_para_resumir, in the order the jobs are submitted.
chunks_para_resumir(grupos, fallback_chars) == ChunksFrom(grupos, 1, fallback_chars)

\* ------------------------------------------------------------ model answers
\* Fixed texts of the program, one code each.
PROCESSO == 600     \* "Processo nº "
STUB == 700         \* "Relatório: Processo analisado com base nos atos processuais fornecidos."
ERRO == 800         \* "Erro no processamento: "
ERRO_GERACAO == 810 \* "Erro na geração de conteúdo: ..."
DOCUMENTO == 900    \* "Documento processado com ... caracteres."
\* The body of the answer of the summary backend is the code 400, the bodies
\* of the answers of the report backend are the codes 500-503.

\* What summary_llm.predict(texto) answers when the call succeeds: a text that
\* names the chunk it summarizes, wrapped the way an echoed TextBlock is.
LlmSummary(texto) == <<ARTIFACT, 400>> \o texto \o <<LF>>

\* The answers of the report backend this model draws from.
ReportAnswers == {"plain", "crlf", "prefixed"}

LlmReport(answer, process_number) ==
    CASE answer = "plain" -> <<500, LF, LF, LF, 501>>
      [] answer = "crlf" -> <<500, CR, LF, 502>>
      [] answer = "other_number" -> <<PROCESSO, 309, LF, LF, 500>>
      [] OTHER -> IF process_number = None THEN <<DQUOTE, 500, 503, DQUOTE>>
                  ELSE <<LF, PROCESSO>> \o process_number \o <<LF, LF, 500, 503>>

\* ------------------------------------------------------------ clean_textblock_artifacts
RECURSIVE CollapseNewlines(_)
\* re.sub(r'\n{3,}', '\n\n', text)
CollapseNewlines(t) ==
    IF t = <<>> THEN <<>>
    ELSE IF Len(t) >= 3 /\ t[1] = LF /\ t[2] = LF /\ t[3] = LF
         THEN CollapseNewlines(Tail(t))
         ELSE <<t[1]>> \o CollapseNewlines(Tail(t))

clean_textblock_artifacts(text) ==
    IF text = <<>> THEN <<>>
    ELSE Strip(CollapseNewlines(StripQuotes(SelectSeq(text, LAMBDA c : c # ARTIFACT))))

\* ------------------------------------------------------------ summarize, build_report
\* summarize(text, llm, cfg); ok: the backend call succeeded.
summarize(text, ok) ==
    IF ok THEN Strip(LlmSummary(text)) ELSE <<DOCUMENTO, Len(text)>>

\* The except branch of build_report (lines 387-393).
ReportStub(atos, process_number) ==
    IF process_number # None
    THEN <<PROCESSO>> \o process_number \o <<LF, LF, STUB, LF, LF>> \o atos
    ELSE <<STUB, LF, LF>> \o atos

\* AnthropicClaudeWrapper.invoke: a failed call is answered with an error text.
ClaudeInvoke(answer, process_number) ==
    IF answer = "fail" THEN <<ERRO_GERACAO>>
    ELSE Strip(LlmReport(answer, process_number))

\* build_report with the prefix line added whenever a process number is there.
BuildReportAlwaysPrefix(atos, process_number, backend, answer) ==
    IF backend = "openai" /\ answer = "fail"
    THEN ReportStub(atos, process_number)
    ELSE LET resp == IF backend = "claude" THEN ClaudeInvoke(answer, process_number)
                     ELSE LlmReport(answer, process_number)
             content == IF process_number # None
                        THEN <<PROCESSO>> \o process_number \o <<LF, LF>> \o Strip(resp)
                        ELSE resp
         IN Strip(content)

\* build_report(atos, process_number, cfg).  backend: which client get_llm
\* gives for the report model; answer: what the backend does ("fail": the
\* call raises or fails).
build_report(atos, process_number, backend, answer) ==
    IF backend = "openai" /\ answer = "fail"
    THEN ReportStub(atos, process_number)
    ELSE LET resp == IF backend = "claude" THEN ClaudeInvoke(answer, process_number)
                     ELSE LlmReport(answer, process_number)
             content == IF process_number # None
                           /\ ~StartsWith(Strip(resp), <<PROCESSO>> \o process_number)
                        THEN <<PROCESSO>> \o process_number \o <<LF, LF>> \o Strip(resp)
                        ELSE resp
         IN Strip(content)

\* ------------------------------------------------------------ cache file
RECURSIVE UniversalNewlines(_)
\* Text-mode read with newline=None: "\r\n" and "\r" are read as "\n".
UniversalNewlines(t) ==
    IF t = <<>> THEN <<>>
    ELSE IF t[1] = CR
         THEN <<LF>> \o UniversalNewlines(IF Len(t) >= 2 /\ t[2] = LF
                                          THEN SubSeq(t, 3, Len(t)) ELSE Tail(t))
         ELSE <<t[1]>> \o UniversalNewlines(Tail(t))

\* cache_path.read_text(encoding="utf-8") of a file holding `content`.
ReadText(content) == UniversalNewlines(content)

\* What cache_path.write_text(text, encoding="utf-8") leaves in the file:
\* "\n" is written as os.linesep, which is "\n" where /tmp exists.
WriteText(text) == [i \in 1..Len(text) |-> text[i]]

\* ------------------------------------------------------------ state
VARIABLES
    threads,  \* the threads that call generate (request workers of main.py)
    docs,     \* the PDFs the requests upload
    budget,   \* how many calls of generate the requests make in all
    pc,       \* pc[c]: where thread c is inside generate
    loc,      \* loc[c]: the locals of thread c's call
    cache,    \* the files /tmp/report_<digest>.txt: digest -> content, or NoFile
    last,     \* the record of the call that ended last
    calls,    \* number of calls begun
    gp        \* the input and the results of the specifications of one function

vars == <<threads, docs, budget, pc, loc, cache, last, calls, gp>>

\* max_workers of the ThreadPoolExecutor.
PoolWorkers == 4
\* cfg.fallback_chars of the calls of this model.
FallbackChars == 2

Callers == {1, 2}
NoFile == <<-2>>

\* The page of number i holding keyword or number code k.
Page(k, i) == <<k, PageBody(i)>>

\* The PDFs the calls are made with: the page_content of their pages.
Docs ==
    << <<Page(101, 1), Page(105, 2), Page(102, 3), Page(SPACE, 4)>>,
       <<Page(301, 1)>>,
       <<>> >>

DocIds == 1..Len(Docs)

\* hashlib.sha256(pdf.read_bytes()).hexdigest(): distinct PDFs, distinct digests.
Digest(pdf) == 7000 + pdf
Digests == {Digest(d) : d \in DocIds}

\* on_progress: "none" is no callback or one that never raises (main.py's
\* queue.put_nowait); "raising" is a callback that can raise.
Callbacks == {"none", "raising"}

\* str(e) of the exceptions generate catches.
E_GETLLM == 801
E_READBYTES == 802
E_STAT == 803
E_READ == 804
E_LOAD == 805
E_CALLBACK == 806
E_SUMMARY == 807
E_WRITE == 808

NoCall == [kind |-> "none", text |-> <<>>, pdf |-> 0, n |-> 0]

BlankLocal ==
    [pdf |-> 0, cb |-> "none", pages |-> <<>>, process_number |-> None,
     chunks |-> <<>>, done |-> {}, failed |-> FALSE, linhas |-> <<>>,
     report_limpo |-> <<>>, err |-> 0,
     loaded |-> FALSE, summary_calls |-> 0, report_calls |-> 0, writes |-> 0]

\* The record of a finished call.
LogEntry(c, l, kind, text, hit) ==
    [n |-> last.n + 1, pdf |-> l.pdf, kind |-> kind, text |-> text, hit |-> hit,
     stored |-> IF hit THEN cache[Digest(l.pdf)] ELSE NoFile,
     err |-> l.err, failed |-> l.failed,
     loaded |-> l.loaded, summary_calls |-> l.summary_calls,
     report_calls |-> l.report_calls, writes |-> l.writes]

\* generate returns `text` / raises: the call ends.
Return(c, l, kind, text, hit) ==
    /\ last' = LogEntry(c, l, kind, text, hit)
    /\ pc' = [pc EXCEPT ![c] = "idle"]
    /\ loc' = [loc EXCEPT ![c] = BlankLocal]

\* An exception inside the try block: control goes to the handler of line 536.
Caught(c, l, e) ==
    /\ pc' = [pc EXCEPT ![c] = "except"]
    /\ loc' = [loc EXCEPT ![c] = [l EXCEPT !.err = e]]
    /\ UNCHANGED last

\* Control stays inside generate, at `at`, with locals l.
Goto(c, l, at) ==
    /\ pc' = [pc EXCEPT ![c] = at]
    /\ loc' = [loc EXCEPT ![c] = l]
    /\ UNCHANGED last

\* What a call of on_progress can do.
CallbackOutcomes(cb) == IF cb = "raising" THEN {"ok", "raises"} ELSE {"ok"}

\* The report an earlier run of the server left in /tmp for a PDF without
\* pages: the files of the cache outlive the process.
EarlierReport ==
    clean_textblock_artifacts(build_report(<<>>, None, "openai", "plain"))

\* Threads T serve n calls with the PDFs of D; the PDFs of K have a cache
\* file from an earlier run.
InitPipeline(T, D, n, K) ==
    /\ threads = T
    /\ docs = D
    /\ budget = n
    /\ pc = [c \in Callers |-> "idle"]
    /\ loc = [c \in Callers |-> BlankLocal]
    /\ cache = [d \in Digests |->
                  IF \E pdf \in K : Digest(pdf) = d
                  THEN WriteText(EarlierReport) ELSE NoFile]
    /\ last = NoCall
    /\ calls = 0

\* The state before any request of this run: no call yet.
InitWith(T, D, n, K) ==
    /\ InitPipeline(T, D, n, K)
    /\ gp = [stage |-> "off", pages |-> <<>>, groups |-> <<>>,
             process_number |-> None, chunks |-> <<>>]

\* ------------------------------------------------------------ generate
\* Lines 427-431: get_llm, read_bytes, the digest.  Both calls are outside
\* the try block.
GenerateEntry(c) ==
    /\ c \in threads
    /\ pc[c] = "idle"
    /\ calls < budget
    /\ calls' = calls + 1
    /\ UNCHANGED <<threads, docs, budget, cache, gp>>
    /\ \E pdf \in docs, cb \in Callbacks,
          outcome \in {"ok", "get_llm_raises", "read_bytes_raises"} :
         LET l == [BlankLocal EXCEPT !.pdf = pdf, !.cb = cb] IN
         CASE outcome = "ok" -> Goto(c, l, "exists")
           [] outcome = "get_llm_raises" ->
                Return(c, [l EXCEPT !.err = E_GETLLM], "raised", <<>>, FALSE)
           [] OTHER ->
                Return(c, [l EXCEPT !.err = E_READBYTES], "raised", <<>>, FALSE)

\* Line 432: cache_path.exists(), outside the try block.  A failing stat is
\* either raised or answered False, depending on the error and the runtime.
CacheExists(c) ==
    /\ pc[c] = "exists"
    /\ UNCHANGED <<threads, docs, budget, cache, calls, gp>>
    /\ \E outcome \in {"stat", "raises", "false_on_error"} :
         CASE outcome = "stat" ->
                Goto(c, loc[c],
                     IF cache[Digest(loc[c].pdf)] # NoFile THEN "read" ELSE "load")
           [] outcome = "raises" ->
                Return(c, [loc[c] EXCEPT !.err = E_STAT], "raised", <<>>, FALSE)
           [] OTHER -> Goto(c, loc[c], "load")

\* Line 434: return cache_path.read_text(...), outside the try block.
CacheRead(c) ==
    /\ pc[c] = "read"
    /\ UNCHANGED <<threads, docs, budget, cache, calls, gp>>
    /\ \E ok \in BOOLEAN :
         IF ok
         THEN Return(c, loc[c], "returned", ReadText(cache[Digest(loc[c].pdf)]), TRUE)
         ELSE Return(c, [loc[c] EXCEPT !.err = E_READ], "raised", <<>>, TRUE)

\* The pages PdfReader(strict=False) gives when extract_text fails on the
\* pages of `bad`.
FallbackPages(pages, bad) ==
    [i \in 1..Len(pages) |-> IF i \in bad THEN <<>> ELSE pages[i]]

\* Lines 437-455: the pages, by PyPDFLoader or by the fallback, and the
\* first progress message.
LoadPages(c) ==
    /\ pc[c] = "load"
    /\ UNCHANGED <<threads, docs, budget, cache, calls, gp>>
    /\ LET doc == Docs[loc[c].pdf] IN
       \E how \in {"loader", "fallback", "raises"},
          bad \in {{}} \cup {{i} : i \in 1..Len(doc)},
          cbo \in CallbackOutcomes(loc[c].cb) :
         /\ how # "fallback" => bad = {}
         /\ how = "raises" => cbo = "ok"
         /\ LET l == [loc[c] EXCEPT !.loaded = TRUE,
                                    !.pages = IF how = "fallback"
                                              THEN FallbackPages(doc, bad) ELSE doc]
            IN CASE how = "raises" -> Caught(c, loc[c], E_LOAD)
                 [] how # "raises" /\ cbo = "raises" -> Caught(c, l, E_CALLBACK)
                 [] OTHER -> Goto(c, l, "group")

\* Lines 458-495 and 508-509: group_pages, the list of chunks, the jobs
\* submitted to the pool in the order of the list.
GroupAndChunk(c) ==
    /\ pc[c] = "group"
    /\ UNCHANGED <<threads, docs, budget, cache, calls, gp>>
    /\ LET g == group_pages(loc[c].pages)
           l == [loc[c] EXCEPT !.process_number = g.process_number,
                               !.chunks = chunks_para_resumir(g.groups, FallbackChars)]
           reports == g.process_number # None \/ g.groups # <<>>
       IN \E cbo \in CallbackOutcomes(loc[c].cb) :
            /\ ~reports => cbo = "ok"
            /\ IF cbo = "raises" THEN Caught(c, l, E_CALLBACK)
               ELSE Goto(c, l, IF l.chunks = <<>> THEN "build" ELSE "pool")

\* The jobs a worker of the pool has taken and not finished: the pool starts
\* jobs in submission order, PoolWorkers at a time.
Running(l) ==
    {i \in (1..Len(l.chunks)) \ l.done :
        Cardinality({j \in 1..(i - 1) : j \notin l.done}) < PoolWorkers}

\* _job (lines 502-506): the summary of one chunk.
Job(chunk) == clean_textblock_artifacts(LlmSummary(chunk.part))

\* What the loop of lines 510-511 does with the result of a finished job.
Collect(linhas, resumo) == Append(linhas, resumo)

\* Lines 502-511: job i ends, as_completed yields it, fut.result() is
\* appended or raises.  After a raise the with block still waits for the
\* jobs left (shutdown(wait=True)); their results are dropped.
JobDone(c, i) ==
    /\ pc[c] = "pool"
    /\ i \in Running(loc[c])
    /\ UNCHANGED <<threads, docs, budget, cache, calls, gp>>
    /\ \E ok \in BOOLEAN :
         LET l0 == loc[c]
             l == [l0 EXCEPT !.done = @ \cup {i},
                             !.summary_calls = @ + 1,
                             !.failed = @ \/ ~ok,
                             !.linhas = IF ok /\ ~l0.failed
                                        THEN Collect(@, Job(l0.chunks[i])) ELSE @]
             all_done == l.done = 1..Len(l.chunks)
         IN CASE ~all_done -> Goto(c, l, "pool")
              [] all_done /\ l.failed -> Caught(c, l, E_SUMMARY)
              [] OTHER -> Goto(c, l, "build")

\* Lines 514-526: the summaries joined, build_report, the cleaned report.
BuildReport(c) ==
    /\ pc[c] = "build"
    /\ UNCHANGED <<threads, docs, budget, cache, calls, gp>>
    /\ \E cbo \in CallbackOutcomes(loc[c].cb),
          backend \in {"openai", "claude"}, answer \in ReportAnswers \cup {"fail"} :
         LET atos == Join(loc[c].linhas, <<LF>>)
             report == build_report(atos, loc[c].process_number, backend, answer)
             l == [loc[c] EXCEPT !.chunks = <<>>, !.done = {}, !.linhas = <<>>,
                                 !.pages = <<>>,
                                 !.report_calls = @ + 1,
                                 !.report_limpo = clean_textblock_artifacts(report)]
         IN /\ cbo = "raises" => (backend = "openai" /\ answer = "fail")
            /\ IF cbo = "raises"
               THEN Caught(c, loc[c], E_CALLBACK)
               ELSE Goto(c, l, "write")

\* Line 527, first half: write_text opens the file for writing, which
\* creates it or empties it.
CacheOpen(c) ==
    /\ pc[c] = "write"
    /\ UNCHANGED <<threads, docs, budget, calls, gp>>
    /\ \E ok \in BOOLEAN :
         IF ok
         THEN /\ cache' = [cache EXCEPT ![Digest(loc[c].pdf)] = <<>>]
              /\ Goto(c, loc[c], "flush")
         ELSE /\ UNCHANGED cache
              /\ Caught(c, loc[c], E_WRITE)

\* Line 527, second half: the text is written and the file closed.
CacheFlush(c) ==
    /\ pc[c] = "flush"
    /\ UNCHANGED <<threads, docs, budget, calls, gp>>
    /\ \E ok \in BOOLEAN :
         IF ok
         THEN /\ cache' = [cache EXCEPT ![Digest(loc[c].pdf)] =
                                            WriteText(loc[c].report_limpo)]
              /\ Goto(c, [loc[c] EXCEPT !.writes = @ + 1], "finish")
         ELSE /\ UNCHANGED cache
              /\ Caught(c, loc[c], E_WRITE)

\* Lines 529-534: the last progress message and the return.
Finish(c) ==
    /\ pc[c] = "finish"
    /\ UNCHANGED <<threads, docs, budget, cache, calls, gp>>
    /\ \E cbo \in CallbackOutcomes(loc[c].cb) :
         IF cbo = "raises" THEN Caught(c, loc[c], E_CALLBACK)
         ELSE Return(c, loc[c], "returned", loc[c].report_limpo, FALSE)

\* Lines 536-542: the handler reports the error through on_progress, which
\* is not guarded here, and returns the error text.
Except(c) ==
    /\ pc[c] = "except"
    /\ UNCHANGED <<threads, docs, budget, cache, calls, gp>>
    /\ \E cbo \in CallbackOutcomes(loc[c].cb) :
         IF cbo = "raises" THEN Return(c, loc[c], "raised", <<>>, FALSE)
         ELSE Return(c, loc[c], "returned", <<ERRO, loc[c].err>>, FALSE)

Next ==
    \/ \E c \in Callers : GenerateEntry(c)
    \/ \E c \in Callers : CacheExists(c)
    \/ \E c \in Callers : CacheRead(c)
    \/ \E c \in Callers : LoadPages(c)
    \/ \E c \in Callers : GroupAndChunk(c)
    \/ \E c \in Callers : \E i \in 1..Len(loc[c].chunks) : JobDone(c, i)
    \/ \E c \in Callers : BuildReport(c)
    \/ \E c \in Callers : CacheOpen(c)
    \/ \E c \in Callers : CacheFlush(c)
    \/ \E c \in Callers : Finish(c)
    \/ \E c \in Callers : Except(c)

\* Requests served by two worker threads at once.
Spec == InitWith({1, 2}, {2, 3}, MaxCalls, {}) /\ [][Next]_vars

\* One thread: the calls follow one another.
SpecSeq == InitWith({1}, {2, 3}, MaxCalls, {}) /\ [][Next]_vars

\* One thread and one call, with the PDF whose chunks outnumber the workers
\* of the pool or with the PDF an earlier run has cached.
SpecPool == InitWith({1}, {1, 3}, 1, {3}) /\ [][Next]_vars

\* ------------------------------------------------------------ grouping alone
\* The texts a page of number i can hold: a keyword (lower or upper case) or
\* one of two process numbers before its body, its body alone, or nothing.
PageTexts(i) ==
    {Page(101, i), Page(201, i), Page(105, i), Page(301, i), Page(309, i),
     <<PageBody(i)>>, <<>>}

PageSeqs(n) == {ps \in [1..n -> UNION {PageTexts(i) : i \in 1..n}] :
                   \A i \in 1..n : ps[i] \in PageTexts(i)}

InitGroup ==
    /\ InitPipeline({}, {}, 0, {})
    /\ \E n \in 0..MaxPages : \E ps \in PageSeqs(n) :
         gp = [stage |-> "in", pages |-> ps, groups |-> <<>>,
               process_number |-> None, chunks |-> <<>>]

\* grupos, process_number = group_pages(pages, cfg)   (generate, line 458)
GroupStep ==
    /\ gp.stage = "in"
    /\ LET g == group_pages(gp.pages) IN
       gp' = [gp EXCEPT !.stage = "grouped", !.groups = g.groups,
                        !.process_number = g.process_number]
    /\ UNCHANGED <<threads, docs, budget, pc, loc, cache, last, calls>>

\* The list of chunks generate builds from the groups (lines 469-495).
ChunkStep ==
    /\ gp.stage = "grouped"
    /\ gp' = [gp EXCEPT !.stage = "chunked",
                        !.chunks = chunks_para_resumir(gp.groups, FallbackChars)]
    /\ UNCHANGED <<threads, docs, budget, pc, loc, cache, last, calls>>

NextGroup == GroupStep \/ ChunkStep

\* group_pages and the chunk list on every page sequence of up to MaxPages pages.
SpecGroup == InitGroup /\ [][NextGroup]_vars

\* ------------------------------------------------------------ claims on group_pages
\* Every text of the dict, key by key in the order of the dict.
RECURSIVE Entries(_)
Entries(groups) ==
    IF groups = <<>> THEN <<>> ELSE groups[1].blocos \o Entries(Tail(groups))

Labels(pages) == [i \in 1..Len(pages) |-> classify_page(pages[i])]

\* Page i begins a run of equally labelled pages.
IsRunStart(pages, i) == i = 1 \/ Labels(pages)[i] # Labels(pages)[i - 1]

\* The last page of the maximal run that begins at page s.
RunEnd(pages, s) ==
    CHOOSE e \in s..Len(pages) :
        /\ \A k \in s..e : Labels(pages)[k] = Labels(pages)[s]
        /\ e = Len(pages) \/ Labels(pages)[e + 1] # Labels(pages)[s]

RunText(pages, s) == Join(SubSeq(pages, s, RunEnd(pages, s)), <<LF>>)

RECURSIVE RunsOf(_, _, _)
\* The texts of the maximal runs labelled lab, from page i on, in page order.
RunsOf(pages, lab, i) ==
    IF i > Len(pages) THEN <<>>
    ELSE (IF IsRunStart(pages, i) /\ Labels(pages)[i] = lab
          THEN <<RunText(pages, i)>> ELSE <<>>) \o RunsOf(pages, lab, i + 1)

FirstPageOf(pages, lab) ==
    CHOOSE i \in 1..Len(pages) :
        Labels(pages)[i] = lab /\ \A j \in 1..(i - 1) : Labels(pages)[j] # lab

\* C8: the groups of group_pages, taken back in order, concatenate to exactly
\* the original sequence of page texts (every page once, in page order).
C8_GroupsConcatenateToPages ==
    gp.stage = "grouped" =>
        Join(Entries(gp.groups), <<LF>>) = Join(gp.pages, <<LF>>)

\* C9: every entry of group_pages is a maximal run of consecutive pages with
\* one label: under each label, in page order, exactly the texts of the
\* maximal runs of that label (a label that comes back gets another entry),
\* the labels in the order of their first page; pages labelled
\* [peticao_inicial, peticao_inicial, decisao] give 2 groups in that order.
C9_EntriesAreMaximalRuns ==
    gp.stage = "grouped" =>
        LET g == gp.groups
            ps == gp.pages
        IN /\ {g[k].lab : k \in 1..Len(g)} = {Labels(ps)[i] : i \in 1..Len(ps)}
           /\ \A k \in 1..Len(g) : g[k].blocos = RunsOf(ps, g[k].lab, 1)
           /\ \A j, k \in 1..Len(g) :
                j < k => FirstPageOf(ps, g[j].lab) < FirstPageOf(ps, g[k].lab)
           /\ Len(Entries(g)) = Cardinality({i \in 1..Len(ps) : IsRunStart(ps, i)})
           /\ Labels(ps) = <<"peticao_inicial", "peticao_inicial", "decisao">> =>
                /\ Len(g) = 2
                /\ g[1] = [lab |-> "peticao_inicial",
                           blocos |-> <<ps[1] \o <<LF>> \o ps[2]>>]
                /\ g[2] = [lab |-> "decisao", blocos |-> <<ps[3]>>]

\* Pages labelled A, A, B, A grouped: a run of two, a change, a label that
\* comes back.
C9_Witness ==
    /\ gp.stage = "grouped"
    /\ Labels(gp.pages) =
         <<"peticao_inicial", "peticao_inicial", "decisao", "peticao_inicial">>
    /\ Len(gp.groups) = 2
    /\ Len(gp.groups[1].blocos) = 2

\* The chunk, by its place in the submission order, that holds the body of
\* page i.
ChunkOfPage(chunks, i) ==
    CHOOSE k \in 1..Len(chunks) : Contains(chunks[k].part, PageBody(i))

\* C10: the chunk texts in submission order follow the page order: the body
\* of a later page is never in a chunk submitted before the chunk holding an
\* earlier page (no merge across non-contiguous runs).
C10_ChunksFollowPageOrder ==
    gp.stage = "chunked" =>
        \A i, j \in 1..Len(gp.pages) :
            (i < j /\ gp.pages[i] # <<>> /\ gp.pages[j] # <<>>) =>
                ChunkOfPage(gp.chunks, i) <= ChunkOfPage(gp.chunks, j)

\* ------------------------------------------------------------ claims on generate
\* The summaries of the chunks in the order the chunks were submitted.
SummariesInOrder(chunks) == [i \in 1..Len(chunks) |-> Job(chunks[i])]

\* C1: for every order in which the jobs of the pool complete, the list of
\* summaries joined into the report input is in chunk-submission order.
C1_SummariesInSubmissionOrder ==
    \A c \in Callers :
        pc[c] = "build" => loc[c].linhas = SummariesInOrder(loc[c].chunks)

\* C2: a summarization call that fails for one chunk does not abort the
\* batch: the call of generate goes on to build the report (it does not end
\* in the error text of the handler).
C2_FailedChunkDoesNotAbort ==
    (last.kind # "none" /\ last.failed) =>
        /\ last.kind = "returned"
        /\ last.report_calls = 1
        /\ ~StartsWith(last.text, <<ERRO>>)

\* C3: a call that finds a cache entry for the digest returns exactly the
\* stored text and extracts no page, calls no backend and writes no cache
\* file (stated for the calls whose read of the entry succeeds; a read that
\* fails is the matter of C6 and C7).
C3_HitReturnsStoredText ==
    (last.kind # "none" /\ last.hit) =>
        /\ last.kind = "returned" => last.text = last.stored
        /\ ~last.loaded
        /\ last.summary_calls = 0
        /\ last.report_calls = 0
        /\ last.writes = 0

\* A call of generate ends in this step.
CallEnds == last'.n = last.n + 1

\* C4: of two calls in sequence with the same PDF bytes, the second returns
\* the text the first returned and calls no backend (stated for two calls
\* that both return; that a call can raise is the matter of C7).
C4_SecondCallServedFromCache ==
    [][(CallEnds /\ last.kind = "returned" /\ last'.kind = "returned"
           /\ last'.pdf = last.pdf) =>
          /\ last'.text = last.text
          /\ last'.summary_calls = 0
          /\ last'.report_calls = 0]_vars

\* A cache file whose write has completed (an open that has not written yet
\* leaves the file empty).
Written(content) == content # NoFile /\ content # <<>>

\* C5: a cached report is immutable once written: the content stored under a
\* digest never changes afterwards, and every later read of the digest
\* returns that text.
C5_CacheEntryImmutable ==
    [][\A d \in Digests :
          Written(cache[d]) =>
              /\ cache'[d] = cache[d]
              /\ (CallEnds /\ last'.hit /\ last'.kind = "returned"
                     /\ Digest(last'.pdf) = d) =>
                         last'.text = ReadText(cache[d])]_vars

\* C6: a cache-store error is never fatal: after a failed existence check or
\* read the call recomputes (it loads the pages and returns a text), after a
\* failed write it still returns the report it computed.
C6_CacheErrorsNotFatal ==
    last.kind # "none" =>
        /\ last.err \in {E_STAT, E_READ} => (last.kind = "returned" /\ last.loaded)
        /\ last.err = E_WRITE =>
               (last.kind = "returned" /\ ~StartsWith(last.text, <<ERRO>>))

\* C7: generate never raises to its caller: every call returns a text.
C7_GenerateNeverRaises == last.kind # "raised"

\* ------------------------------------------------------------ extrair_numero_processo (main.py)
\* texto.split('\n')[:20]
HeadLines == 20

RECURSIVE FirstLines(_, _)
\* '\n'.join(texto.split('\n')[:n])
FirstLines(t, n) ==
    IF t = <<>> THEN <<>>
    ELSE IF t[1] = LF
         THEN (IF n <= 1 THEN <<>> ELSE <<LF>> \o FirstLines(Tail(t), n - 1))
         ELSE <<t[1]>> \o FirstLines(Tail(t), n)

\* re.findall(padroes[p], text, re.IGNORECASE)[0] on the token alone.
PadraoMatch(p, tok) ==
    LET sh == NumberShape(Bare(tok))
        w == TokenWord(tok)
    IN CASE p = 1 /\ WholeMatch(sh, CNJ) -> <<Bare(tok)>>
         [] p = 2 /\ WholeMatch(sh, CNJ_LONG) -> <<Bare(tok)>>
         [] p = 3 /\ w \in {"numero", "processo eletronico n"} /\ PrefixMatch(sh, CNJ)
              -> <<Captured(Bare(tok))>>
         [] p = 4 /\ WholeMatch(sh, OLD_FORMAT) -> <<Bare(tok)>>
         [] p = 5 /\ w \in {"processo", "autos"} /\ PrefixMatch(sh, CNJ)
              -> <<Captured(Bare(tok))>>
         [] OTHER -> None

\* re.match(r'\d{7,10}-\d{2}\.\d{4}\.\d{1}\.\d{2}\.\d{4}', numero)
ValidaCNJ(numero) ==
    \E n \in 7..10 : PrefixMatch(NumberShape(numero), <<n>> \o Tail(CNJ))

RECURSIVE PadraoFirstMatch(_, _, _)
\* matches[0], or None when matches is empty
PadraoFirstMatch(t, p, i) ==
    IF i > Len(t) THEN None
    ELSE IF t[i] \in NumberTokens /\ PadraoMatch(p, t[i]) # None
         THEN PadraoMatch(p, t[i])
    ELSE PadraoFirstMatch(t, p, i + 1)

RECURSIVE ProcuraSemValidar(_, _)
\* The loop over padroes without the check of line 209.
ProcuraSemValidar(t, p) ==
    IF p > 5 THEN None
    ELSE LET m == PadraoFirstMatch(t, p, 1) IN
         IF m # None THEN m ELSE ProcuraSemValidar(t, p + 1)

RECURSIVE ProcuraPadroes(_, _)
\* One of the two loops over padroes (lines 204-210, 213-218).
ProcuraPadroes(t, p) ==
    IF p > 5 THEN None
    ELSE LET m == PadraoFirstMatch(t, p, 1) IN
         IF m # None /\ ValidaCNJ(m[1]) THEN m
         ELSE ProcuraPadroes(t, p + 1)

extrair_numero_processo(texto) ==
    LET linhas_iniciais == FirstLines(texto, HeadLines)
        numero == ProcuraPadroes(linhas_iniciais, 1)
    IN IF numero # None THEN numero ELSE ProcuraPadroes(texto, 1)

\* ------------------------------------------------------------ the two extractions alone
Lines(n) == [i \in 1..n |-> LF]

\* A word that is neither a number nor a keyword.
PlainWord == PageBody(0)

\* Texts of two tokens: the first after k line ends, the second m line ends
\* further on.
NumberTexts ==
    {Lines(k) \o <<a>> \o Lines(m) \o <<b>> :
        k \in {0, HeadLines - 1, HeadLines}, m \in {1, HeadLines},
        a \in NumberTokens \cup {PlainWord}, b \in NumberTokens \cup {PlainWord}}

InitNumber ==
    /\ InitPipeline({}, {}, 0, {})
    /\ \E t \in NumberTexts : gp = [stage |-> "text", text |-> t, number |-> None]

\* process_number = extract_process_number(p.page_content)   (line 117)
PipelineNumber ==
    /\ gp.stage = "text"
    /\ gp' = [gp EXCEPT !.stage = "pipeline",
                        !.number = extract_process_number(gp.text)]
    /\ UNCHANGED <<threads, docs, budget, pc, loc, cache, last, calls>>

\* numero_processo = extrair_numero_processo(texto)   (main.py, line 309)
ApiNumber ==
    /\ gp.stage = "text"
    /\ gp' = [gp EXCEPT !.stage = "api",
                        !.number = extrair_numero_processo(gp.text)]
    /\ UNCHANGED <<threads, docs, budget, pc, loc, cache, last, calls>>

NextNumber == PipelineNumber \/ ApiNumber

SpecNumber == InitNumber /\ [][NextNumber]_vars

\* ------------------------------------------------------------ claims on the process number
\* A well-formed case number of one of the defined formats, in full.
WellFormed(number) == NumberShape(number) \in {CNJ, CNJ_LONG, OLD_FORMAT}

\* C11: every process number that extract_process_number or
\* extrair_numero_processo returns is, in full, a well-formed case number of
\* one of the defined formats.
C11_ReturnedNumberWellFormed ==
    (gp.stage \in {"pipeline", "api"} /\ gp.number # None) =>
        WellFormed(gp.number[1])

\* The places of text x where pattern p matches.
MatchPlaces(x, p) ==
    {i \in 1..Len(x) : x[i] \in NumberTokens /\ PadraoMatch(p, x[i]) # None}

Least(S) == CHOOSE i \in S : \A j \in S : i <= j

\* The first match of pattern p in x.
FirstOf(x, p) == PadraoMatch(p, x[Least(MatchPlaces(x, p))])

\* The patterns whose first match in x passes the validation.
Accepting(x) ==
    {p \in 1..5 : MatchPlaces(x, p) # {} /\ ValidaCNJ(FirstOf(x, p)[1])}

\* The first match of the first pattern, in priority order, whose first match
\* passes the validation.
Expected(x) == IF Accepting(x) = {} THEN None ELSE FirstOf(x, Least(Accepting(x)))

\* C12: extrair_numero_processo returns, from the first 20 lines, the first
\* match of the first pattern in priority order whose first match passes the
\* validation (a rejected first match sends it to the next pattern); it
\* searches the full text, the same way, only when the first 20 lines gave
\* nothing, and returns None when nothing validates.
C12_PatternOrderHeadThenFull ==
    gp.stage = "api" =>
        LET head == FirstLines(gp.text, HeadLines) IN
        gp.number = IF Expected(head) # None THEN Expected(head)
                    ELSE Expected(gp.text)

\* The first 20 lines hold a match that is rejected and nothing valid, a
\* later line holds a valid number: it is returned.
C12_Witness ==
    /\ gp.stage = "api"
    /\ \E p \in 1..5 : MatchPlaces(FirstLines(gp.text, HeadLines), p) # {}
    /\ Expected(FirstLines(gp.text, HeadLines)) = None
    /\ gp.number # None

\* ------------------------------------------------------------ classify_page alone
\* The words of a page: the keywords, in lower and in upper case, and a word
\* that is no keyword.
Keywords == UNION {PIECE_KWS[k].kws : k \in 1..Len(PIECE_KWS)}
PageWords == Keywords \cup {kw + 100 : kw \in Keywords} \cup {PlainWord}

InitClassify ==
    /\ InitPipeline({}, {}, 0, {})
    /\ \E n \in 0..MaxWords : \E t \in [1..n -> PageWords] :
         gp = [stage |-> "page", text |-> t, label |-> ""]

\* lab = classify_page(p.page_content)   (line 123)
ClassifyStep ==
    /\ gp.stage = "page"
    /\ gp' = [gp EXCEPT !.stage = "classified", !.label = classify_page(gp.text)]
    /\ UNCHANGED <<threads, docs, budget, pc, loc, cache, last, calls>>

NextClassify == ClassifyStep

SpecClassify == InitClassify /\ [][NextClassify]_vars

\* The fixed priority order of the categories.
PriorityOrder ==
    <<"peticao_inicial", "contestacao", "decisao", "despacho", "sentenca", "replica">>

\* The categories one of whose keyword variants occurs in the lower-cased text.
Occurring(txt) ==
    {k \in 1..Len(PriorityOrder) :
        \E i \in 1..Len(txt) : \E j \in 1..Len(PIECE_KWS) :
            /\ PIECE_KWS[j].lab = PriorityOrder[k]
            /\ LowerChar(txt[i]) \in PIECE_KWS[j].kws}

\* C13: classify_page returns the label of the first category, in the fixed
\* priority order, with a keyword variant in the lower-cased text, and
\* 'outros' for every text that holds no keyword, the empty text included.
C13_FirstCategoryOrFallback ==
    gp.stage = "classified" =>
        gp.label = IF Occurring(gp.text) = {} THEN "outros"
                   ELSE PriorityOrder[Least(Occurring(gp.text))]

\* An upper-case keyword of a later category stands before a keyword of an
\* earlier category: the earlier category is the label.
C13_Witness ==
    /\ gp.stage = "classified"
    /\ Len(gp.text) = 2
    /\ gp.text[1] \in {kw + 100 : kw \in PIECE_KWS[5].kws}
    /\ gp.text[2] \in PIECE_KWS[2].kws
    /\ gp.label = "contestacao"

\* ------------------------------------------------------------ the chunks of one section alone
\* The characters i..j of a section, each one a code of its own.
Chars(i, j) == [k \in 1..(j - i + 1) |-> 2000 + i + k - 1]

\* The blocks of a section: one block, or two blocks that "\n" joins.
SectionBlocks ==
    {<<Chars(1, n)>> : n \in 0..MaxText}
    \cup UNION {{<<Chars(1, s), Chars(s + 1, n)>> : s \in 0..n} : n \in 0..(MaxText - 1)}

InitChunk ==
    /\ InitPipeline({}, {}, 0, {})
    /\ \E blocos \in SectionBlocks, fc \in 1..MaxFallback :
         gp = [stage |-> "section", blocos |-> blocos, fallback_chars |-> fc,
               parts |-> <<>>]

\* Lines 477-486: the parts of one section.
SectionStep ==
    /\ gp.stage = "section"
    /\ gp' = [gp EXCEPT !.stage = "parts",
                        !.parts = SectionParts(gp.blocos, gp.fallback_chars)]
    /\ UNCHANGED <<threads, docs, budget, pc, loc, cache, last, calls>>

NextChunk == SectionStep

SpecChunk == InitChunk /\ [][NextChunk]_vars

\* C14: the chunks of a group text are contiguous slices of at most
\* fallback_chars characters that concatenate to the text; every chunk but
\* the last has exactly fallback_chars characters; a text of 10 (thousand)
\* characters with fallback_chars 4 (thousand) gives 3 chunks of 4, 4 and 2;
\* a text no longer than fallback_chars gives exactly one chunk.
C14_ChunksAreSlices ==
    gp.stage = "parts" =>
        LET texto_secao == Join(gp.blocos, <<LF>>)
            parts == gp.parts
            fc == gp.fallback_chars
        IN /\ Join(parts, <<>>) = texto_secao
           /\ \A i \in 1..Len(parts) : Len(parts[i]) <= fc
           /\ \A i \in 1..(Len(parts) - 1) : Len(parts[i]) = fc
           /\ Len(texto_secao) <= fc => parts = <<texto_secao>>
           /\ Len(texto_secao) > fc => parts[Len(parts)] # <<>>
           /\ (Len(texto_secao) = 10 /\ fc = 4) =>
                 [i \in 1..Len(parts) |-> Len(parts[i])] = <<4, 4, 2>>

\* A section of two blocks, 10 characters with the "\n", cut in 3.
C14_Witness ==
    /\ gp.stage = "parts"
    /\ Len(gp.blocos) = 2
    /\ Len(Join(gp.blocos, <<LF>>)) = 10
    /\ gp.fallback_chars = 4
    /\ Len(gp.parts) = 3

\* ------------------------------------------------------------ claims on the process number of group_pages
\* The process number that stands on a page, or None.
NumberOn(page) ==
    IF \E n \in NumberTokens : Contains(page, n)
    THEN <<CHOOSE n \in NumberTokens : Contains(page, n)>>
    ELSE None

\* C15: group_pages takes the process number from the first page only: it
\* is the number of page 1, None when page 1 has none whatever the later
\* pages hold, and an empty page sequence gives an empty mapping and None.
C15_NumberFromFirstPageOnly ==
    gp.stage = "grouped" =>
        /\ gp.pages = <<>> => (gp.groups = <<>> /\ gp.process_number = None)
        /\ gp.pages # <<>> => gp.process_number = NumberOn(gp.pages[1])

\* Page 1 holds no number, a later page holds one: no process number.
C15_Witness ==
    /\ gp.stage = "grouped"
    /\ Len(gp.pages) >= 2
    /\ NumberOn(gp.pages[1]) = None
    /\ \E i \in 2..Len(gp.pages) : NumberOn(gp.pages[i]) # None
    /\ gp.process_number = None

\* ------------------------------------------------------------ build_report alone
\* The summaries build_report is given: up to two, joined by "\n".
AtosTexts ==
    {Join(ls, <<LF>>) :
        ls \in UNION {[1..n -> {<<400, PageBody(1)>>, <<400, PageBody(2)>>}] : n \in 0..2}}

InitReport ==
    /\ InitPipeline({}, {}, 0, {})
    /\ \E atos \in AtosTexts, pn \in {None, <<301>>}, backend \in {"openai", "claude"},
          answer \in ReportAnswers \cup {"other_number", "fail"} :
         gp = [stage |-> "atos", atos |-> atos, process_number |-> pn,
               backend |-> backend, answer |-> answer, report |-> <<>>]

\* report = build_report(atos, process_number, cfg)   (line 523)
ReportStep ==
    /\ gp.stage = "atos"
    /\ gp' = [gp EXCEPT !.stage = "report",
                        !.report = build_report(gp.atos, gp.process_number,
                                                gp.backend, gp.answer)]
    /\ UNCHANGED <<threads, docs, budget, pc, loc, cache, last, calls>>

NextReport == ReportStep

SpecReport == InitReport /\ [][NextReport]_vars

\* How many times the text p stands in the text t.
Occurrences(t, p) ==
    Cardinality({i \in 1..(Len(t) - Len(p) + 1) : SubSeq(t, i, i + Len(p) - 1) = p})

\* C16: with a process number N the text build_report returns starts with
\* "Processo nº N", which stands in it exactly once (prepended when the
\* backend text does not start with it, not added again when it does);
\* without a process number no prefix is added.
C16_PrefixExactlyOnce ==
    gp.stage = "report" =>
        /\ gp.process_number # None =>
              /\ StartsWith(gp.report, <<PROCESSO>> \o gp.process_number)
              /\ Occurrences(gp.report, <<PROCESSO>> \o gp.process_number) = 1
        /\ gp.process_number = None =>
              Occurrences(gp.report, <<PROCESSO>>) =
                  IF gp.answer = "fail" THEN 0
                  ELSE Occurrences(LlmReport(gp.answer, None), <<PROCESSO>>)

\* The backend text already starts with the line: it is there once.
C16_Witness ==
    /\ gp.stage = "report"
    /\ gp.process_number # None
    /\ gp.answer = "prefixed"
    /\ StartsWith(gp.report, <<PROCESSO>> \o gp.process_number)

\* C17: for both backends a failed call of the report model makes
\* build_report return the stub that embeds the summaries (with the process
\* number line when there is one), never the error text of the backend.
C17_FailureGivesStub ==
    (gp.stage = "report" /\ gp.answer = "fail") =>
        /\ gp.report = ReportStub(gp.atos, gp.process_number)
        /\ ~Contains(gp.report, ERRO_GERACAO)

\* ------------------------------------------------------------ recuperar_documentos_similares (retrieval_rerank.py)
\* create_openai_embedding (sentence_indexing_rag.py): the embedding of the
\* text, or, when the embedding backend fails, the vector of 3072 zeros.
create_openai_embedding(ok) == IF ok THEN "embedding" ELSE "zeros"

\* The candidates of step 4: one per hit, in the order of the hits.
Candidatos(hits) ==
    [i \in 1..Len(hits) |-> [id |-> hits[i].id, score_es |-> hits[i].score]]

\* for c, score in zip(candidatos, rerank_scores): c["score_rerank"] = float(score)
AttachScores(candidatos, rerank_scores) ==
    [i \in 1..Len(candidatos) |->
        [id |-> candidatos[i].id, score_es |-> candidatos[i].score_es,
         score_rerank |-> rerank_scores[i]]]

\* Where list.sort(reverse=True) puts c among the sorted candidates: after
\* those that score at least as much (the sort is stable).
InsertDesc(sorted, c) ==
    LET before == SelectSeq(sorted, LAMBDA d : d.score_rerank >= c.score_rerank)
        after == SelectSeq(sorted, LAMBDA d : d.score_rerank < c.score_rerank)
    IN before \o <<c>> \o after

\* The candidates left in the order of retrieval.
Unsorted(candidatos, i) == candidatos

RECURSIVE SortDesc(_, _)
\* candidatos.sort(key=lambda x: x["score_rerank"], reverse=True), from the
\* first i candidates on.
SortDesc(candidatos, i) ==
    IF i = 0 THEN <<>>
    ELSE InsertDesc(SortDesc(candidatos, i - 1), candidatos[i])

\* seq[:k]
SliceTo(seq, k) ==
    IF k >= 0 THEN SubSeq(seq, 1, IF k < Len(seq) THEN k ELSE Len(seq))
    ELSE SubSeq(seq, 1, Len(seq) + k)

\* response["hits"]["hits"] of a kNN search of size top_k.
SearchHits(found, top_k) == SliceTo(found, top_k)

\* recuperar_documentos_similares(query, top_k, rerank_top_k).  q: what the
\* services do on this call: setup_ok (ElasticsearchSetup() is built),
\* embed_ok, search ("ok" or "raises"), zeros (whether the index rejects or
\* answers a query vector of zeros), found (what the index answers, best
\* first), rerank ("ok" or "raises"), scores (the scores of the
\* cross-encoder, one per hit).
recuperar_documentos_similares(q, top_k, rerank_top_k) ==
    LET query_vec == create_openai_embedding(q.embed_ok)
        hits == SearchHits(q.found, top_k)
        candidatos == Candidatos(hits)
        search == IF query_vec = "zeros" /\ q.zeros = "rejected" THEN "raises"
                  ELSE q.search
    IN IF ~q.setup_ok THEN <<>>
       ELSE IF search = "raises" THEN <<>>
       ELSE IF hits = <<>> THEN <<>>
       ELSE IF q.rerank = "raises" THEN <<>>
       ELSE SliceTo(SortDesc(AttachScores(candidatos, q.scores), Len(candidatos)),
                    rerank_top_k)

\* ------------------------------------------------------------ retrieval alone
\* What the index holds: up to MaxHits documents, with their score.
Found(n) == [i \in 1..n |-> [id |-> i, score |-> MaxHits + 1 - i]]

Queries ==
    {[setup_ok |-> s, embed_ok |-> e, search |-> se, found |-> Found(n),
      zeros |-> z, rerank |-> r, scores |-> sc] :
        s \in BOOLEAN, e \in BOOLEAN, se \in {"ok", "raises"}, r \in {"ok", "raises"},
        z \in {"rejected", "answered"}, n \in 0..MaxHits,
        sc \in [1..MaxHits -> 1..MaxScore]}

InitRetrieval ==
    /\ InitPipeline({}, {}, 0, {})
    /\ \E q \in Queries, k \in (0 - 1)..(MaxHits + 1) :
         gp = [stage |-> "query", q |-> q, top_k |-> MaxHits, rerank_top_k |-> k,
               result |-> <<>>]

\* docs = semantic_search_rerank(relatorio, top_k=top_k, rerank_top_k=rerank_top_k)
RetrievalStep ==
    /\ gp.stage = "query"
    /\ gp' = [gp EXCEPT !.stage = "result",
                        !.result = recuperar_documentos_similares(gp.q, gp.top_k,
                                                                  gp.rerank_top_k)]
    /\ UNCHANGED <<threads, docs, budget, pc, loc, cache, last, calls>>

NextRetrieval == RetrievalStep

SpecRetrieval == InitRetrieval /\ [][NextRetrieval]_vars

\* C18: recuperar_documentos_similares returns the empty list whenever the
\* embedding backend, the search of the vector index or the cross-encoder
\* fails; after a failure of the embedding backend no candidate is returned.
C18_FailureGivesEmptyList ==
    gp.stage = "result" =>
        ((~gp.q.setup_ok \/ ~gp.q.embed_ok \/ gp.q.search = "raises"
            \/ gp.q.rerank = "raises") => gp.result = <<>>)


\* The candidates of the call, with their rerank score, in retrieval order.
Ranked(q, top_k) == AttachScores(Candidatos(SearchHits(q.found, top_k)), q.scores)

\* c stands before d in the ranking: a higher rerank score, or the same
\* score and retrieved earlier (the id of a hit is its place in the answer
\* of the index).
RanksBefore(c, d) ==
    \/ c.score_rerank > d.score_rerank
    \/ (c.score_rerank = d.score_rerank /\ c.id < d.id)

NothingFails(q) ==
    /\ q.setup_ok
    /\ q.search = "ok"
    /\ q.rerank = "ok"
    /\ (q.embed_ok \/ q.zeros = "answered")

\* C19: for rerank_top_k >= 0 the list returned has at most rerank_top_k
\* elements, is sorted by rerank score in descending order with equal scores
\* in retrieval order, and holds the highest-ranked candidates.
C19_TopKSortedStable ==
    (gp.stage = "result" /\ gp.rerank_top_k >= 0) =>
        LET r == gp.result
            all == Ranked(gp.q, gp.top_k)
            inR(c) == \E i \in 1..Len(r) : r[i] = c
        IN /\ Len(r) <= gp.rerank_top_k
           /\ \A i \in 1..Len(r) : \E j \in 1..Len(all) : r[i] = all[j]
           /\ \A i, j \in 1..Len(r) : i < j => RanksBefore(r[i], r[j])
           /\ \A i \in 1..Len(r) : \A j \in 1..Len(all) :
                 ~inR(all[j]) => RanksBefore(r[i], all[j])
           /\ NothingFails(gp.q) =>
                 Len(r) = IF gp.rerank_top_k < Len(all) THEN gp.rerank_top_k
                          ELSE Len(all)

\* Three hits, the second and the third with the same highest score, two
\* asked for: the second and the third, in that order.
C19_Witness ==
    /\ gp.stage = "result"
    /\ gp.rerank_top_k = 2
    /\ Len(gp.q.found) = 3
    /\ Len(gp.result) = 2
    /\ gp.result[1].id = 2
    /\ gp.result[2].id = 3
    /\ gp.result[1].score_rerank = gp.result[2].score_rerank

\* ------------------------------------------------------------ the documents of a ruling request (main.py)
\* The parsed uploads: a dict of the sections of the file and its id.
UploadedDocs(uploads) == [i \in 1..Len(uploads) |-> [id |-> 900 + i]]

\* Lines 355-396 (gerar_sentenca_endpoint) and 574-606
\* (stream_gerar_sentenca): the docs passed to gerar_sentenca_llm, or no call
\* when the request is refused.
PrepareDocs(endpoint, uploads, buscar_na_base, q, top_k, rerank_top_k) ==
    LET found == recuperar_documentos_similares(q, top_k, rerank_top_k)
        refused == [called |-> FALSE, docs |-> <<>>]
    IN IF endpoint = "gerar"
          /\ (top_k < 1 \/ top_k > 20 \/ rerank_top_k < 1 \/ rerank_top_k > 10)
       THEN refused
       ELSE IF uploads # <<>>
       THEN IF \E i \in 1..Len(uploads) : uploads[i] # "docx" THEN refused
            ELSE [called |-> TRUE,
                  docs |-> UploadedDocs(uploads)
                           \o (IF buscar_na_base THEN found ELSE <<>>)]
       ELSE IF endpoint = "gerar" /\ found = <<>> THEN refused
       ELSE [called |-> TRUE, docs |-> found]

Uploads == {<<>>, <<"docx">>, <<"docx", "docx">>, <<"txt">>}

\* The calls of the services in which nothing fails.
GoodQueries == {q \in Queries : q.setup_ok /\ q.embed_ok /\ q.zeros = "answered"}

InitSentenca ==
    /\ InitPipeline({}, {}, 0, {})
    /\ \E q \in GoodQueries, k \in (0 - 1)..(MaxHits + 1), u \in Uploads,
          b \in BOOLEAN, e \in {"gerar", "stream"} :
         gp = [stage |-> "request", endpoint |-> e, uploads |-> u,
               buscar_na_base |-> b, q |-> q, top_k |-> MaxHits,
               rerank_top_k |-> k, called |-> FALSE, docs |-> <<>>]

\* The request is handled up to the call of gerar_sentenca_llm.
SentencaStep ==
    /\ gp.stage = "request"
    /\ LET r == PrepareDocs(gp.endpoint, gp.uploads, gp.buscar_na_base, gp.q,
                            gp.top_k, gp.rerank_top_k)
       IN gp' = [gp EXCEPT !.stage = "prepared", !.called = r.called,
                           !.docs = r.docs]
    /\ UNCHANGED <<threads, docs, budget, pc, loc, cache, last, calls>>

NextSentenca == SentencaStep

SpecSentenca == InitSentenca /\ [][NextSentenca]_vars

\* C20: for a request with rerank_top_k = k, with or without uploaded files
\* and with or without the search of the base, the list passed to
\* gerar_sentenca_llm has at most k elements and is sorted by descending
\* rerank score.
C20_AtMostKSortedCandidates ==
    (gp.stage = "prepared" /\ gp.called) =>
        /\ Len(gp.docs) <= gp.rerank_top_k
        /\ \A i \in 1..Len(gp.docs) : "score_rerank" \in DOMAIN gp.docs[i]
        /\ \A i, j \in 1..Len(gp.docs) :
              i < j => gp.docs[i].score_rerank >= gp.docs[j].score_rerank


\* ------------------------------------------------------------ gerar_sentenca_llm (services/llm.py)
\* The most reference documents of one call.
MaxDocs == 6
\* The length of the excerpt of the report of a document placed in the
\* prompt (500 characters in the code, here in units the texts are made of).
ExcerptChars == 1

\* d['relatorio'][:500]
Excerpt(text) == SliceTo(text, ExcerptChars)

\* Lines 135-150: one example per document, numbered from 1, in the order of
\* docs. Only what the claims are about is kept of an example: its number
\* and the excerpt of the report.
Exemplos(dcs) == [i \in 1..Len(dcs) |-> [n |-> i, relatorio |-> Excerpt(dcs[i].relatorio)]]

\* Lines 57-86: the completion backend is called once; its failure is
\* swallowed into an error text.
CallLlm(llm) == IF llm = "ok" THEN "sentenca" ELSE "erro_conteudo"

\* gerar_sentenca_llm without the validation of its arguments.
GerarSemValidar(relatorio, dcs, llm) ==
    [result |-> CallLlm(llm), llm_calls |-> 1, exemplos |-> Exemplos(dcs)]

\* Lines 117-236. The result, the number of calls of the completion backend
\* and the examples of the prompt sent.
gerar_sentenca_llm(relatorio, dcs, llm) ==
    IF relatorio = <<>> \/ Strip(relatorio) = <<>>
    THEN [result |-> "erro_relatorio", llm_calls |-> 0, exemplos |-> <<>>]
    ELSE IF dcs = <<>>
    THEN [result |-> "erro_docs", llm_calls |-> 0, exemplos |-> <<>>]
    ELSE [result |-> CallLlm(llm), llm_calls |-> 1, exemplos |-> Exemplos(dcs)]

\* The documents a call may be given: two reports that differ only after
\* the excerpt, and a third one; a rerank score each.
DocKinds ==
    {[relatorio |-> Chars(1, 1), score_rerank |-> 1],
     [relatorio |-> Chars(1, 2), score_rerank |-> 2],
     [relatorio |-> Chars(2, 2), score_rerank |-> 2]}

DocLists == UNION {[1..n -> DocKinds] : n \in 0..MaxDocs}

Relatorios == {<<>>, <<SPACE, LF>>, <<PageBody(0)>>}

InitSynth ==
    /\ InitPipeline({}, {}, 0, {})
    /\ \E r \in Relatorios, dcs \in DocLists, l \in {"ok", "raises"} :
         gp = [stage |-> "call", relatorio |-> r, docs |-> dcs, llm |-> l,
               result |-> "", llm_calls |-> 0, exemplos |-> <<>>]

SynthStep ==
    /\ gp.stage = "call"
    /\ LET r == gerar_sentenca_llm(gp.relatorio, gp.docs, gp.llm)
       IN gp' = [gp EXCEPT !.stage = "returned", !.result = r.result,
                           !.llm_calls = r.llm_calls, !.exemplos = r.exemplos]
    /\ UNCHANGED <<threads, docs, budget, pc, loc, cache, last, calls>>

NextSynth == SynthStep

SpecSynth == InitSynth /\ [][NextSynth]_vars

\* C21: of two candidates whose report excerpts are the same text (a
\* similarity ratio of 1, above 0.85) at most one is among the examples of
\* the prompt.
C21_NoRedundantExemplars ==
    gp.stage = "returned" =>
        \A i, j \in 1..Len(gp.docs) :
            (i < j /\ Excerpt(gp.docs[i].relatorio) = Excerpt(gp.docs[j].relatorio))
                => ~(/\ \E a \in 1..Len(gp.exemplos) : gp.exemplos[a].n = i
                     /\ \E b \in 1..Len(gp.exemplos) : gp.exemplos[b].n = j)

\* C22: the prompt holds at most 5 examples, taken in descending order of
\* rerank score whatever the order of the list given.
C22_AtMostFiveByScore ==
    gp.stage = "returned" =>
        /\ Len(gp.exemplos) <= 5
        /\ \A a, b \in 1..Len(gp.exemplos) :
              a < b => gp.docs[gp.exemplos[a].n].score_rerank
                         >= gp.docs[gp.exemplos[b].n].score_rerank

MaxMsgs == 2

\* timeout_count > 3 in stream_processar_pdf (line 554), > 5 in
\* stream_gerar_sentenca (line 716).
TimeoutLimit(endpoint) == IF endpoint = "processar" THEN 3 ELSE 5

Terminal == {"complete", "error", "timeout_error"}

\* A request: it is refused before the worker is started (error_generator),
\* or the worker is started and event_generator serves the stream.
InitStream ==
    /\ InitPipeline({}, {}, 0, {})
    /\ \E e \in {"processar", "sentenca"}, refused \in BOOLEAN, n \in 0..MaxMsgs :
         gp = [stage |-> "stream", endpoint |-> e,
               gen |-> IF refused THEN "refused" ELSE "ready",
               worker |-> IF refused THEN "none" ELSE "running",
               left |-> n, queue |-> <<>>, events |-> <<>>, timeout_count |-> 0]

StreamFrame == UNCHANGED <<threads, docs, budget, pc, loc, cache, last, calls>>

\* error_generator: one error event, and the stream is over.
EarlyError ==
    /\ gp.stage = "stream"
    /\ gp.gen = "refused"
    /\ gp' = [gp EXCEPT !.gen = "closed", !.events = Append(@, "error")]
    /\ StreamFrame

\* on_progress / queue.put_nowait(msg) in the worker thread.
WorkerProgress ==
    /\ gp.stage = "stream"
    /\ gp.worker = "running"
    /\ gp.left > 0
    /\ gp' = [gp EXCEPT !.left = @ - 1, !.queue = Append(@, "msg")]
    /\ StreamFrame

\* The last put of the worker: "__COMPLETE__:" + the result, or
\* "__ERROR__:" + the message of the exception caught.
WorkerFinish ==
    /\ gp.stage = "stream"
    /\ gp.worker = "running"
    /\ \E item \in {"complete", "error"} :
         gp' = [gp EXCEPT !.worker = "done", !.queue = Append(@, item)]
    /\ StreamFrame

\* What event_generator does with an item of the queue.
Handle(g, item) ==
    IF item \in {"complete", "error"}
    THEN [g EXCEPT !.gen = "closed", !.events = Append(@, item),
                   !.queue = Tail(@)]
    ELSE [g EXCEPT !.gen = "ready", !.events = Append(@, "message"),
                   !.queue = Tail(@), !.timeout_count = 0]

\* queue.get(): the item at the head, or the generator waits for one.
GenGet ==
    /\ gp.stage = "stream"
    /\ gp.gen = "ready"
    /\ gp' = IF gp.queue # <<>> THEN Handle(gp, Head(gp.queue))
             ELSE [gp EXCEPT !.gen = "waiting"]
    /\ StreamFrame

\* The waiting generator is woken by a put.
GenWake ==
    /\ gp.stage = "stream"
    /\ gp.gen = "waiting"
    /\ gp.queue # <<>>
    /\ gp' = Handle(gp, Head(gp.queue))
    /\ StreamFrame

\* asyncio.TimeoutError ignored: the generator waits again, without counting.
GenTimeoutIgnored ==
    /\ gp.stage = "stream"
    /\ gp.gen = "waiting"
    /\ gp' = [gp EXCEPT !.gen = "ready"]
    /\ StreamFrame

\* asyncio.TimeoutError. The put of the worker thread does not wake the
\* event loop (asyncio.Queue is not thread-safe), so the wait may time out
\* with an item in the queue; the item stays there for the next get.
GenTimeout ==
    /\ gp.stage = "stream"
    /\ gp.gen = "waiting"
    /\ gp' = IF gp.timeout_count + 1 > TimeoutLimit(gp.endpoint)
             THEN [gp EXCEPT !.timeout_count = @ + 1, !.gen = "closed",
                             !.events = Append(@, "timeout_error")]
             ELSE [gp EXCEPT !.timeout_count = @ + 1, !.gen = "ready",
                             !.events = Append(@, "wait_message")]
    /\ StreamFrame

Generator == EarlyError \/ GenGet \/ GenWake \/ GenTimeout

NextStream == WorkerProgress \/ WorkerFinish \/ Generator

\* The event loop keeps running the generator (a wait ends with an item or
\* with its timeout); nothing is assumed of the worker, which may stop
\* putting at any moment.
SpecStream == InitStream /\ [][NextStream]_vars /\ WF_vars(Generator)

TerminalEvents(events) == {i \in 1..Len(events) : events[i] \in Terminal}

\* C24: every stream ends; it emits exactly one terminal event, the last of
\* the stream, and nothing after it; the timeout error is emitted exactly
\* when the consecutive timeouts pass the limit, and a progress message
\* resets their count.
C24_StreamEnds ==
    /\ <>(gp.gen = "closed")
    /\ [](gp.gen = "closed" => TerminalEvents(gp.events) = {Len(gp.events)})
    /\ [](gp.gen # "closed" => TerminalEvents(gp.events) = {})
    /\ [][gp.gen = "closed" => gp'.events = gp.events]_vars
    /\ [](gp.timeout_count > TimeoutLimit(gp.endpoint)
             => (gp.gen = "closed" /\ gp.events[Len(gp.events)] = "timeout_error"))
    /\ [][(gp'.events # gp.events /\ gp'.events[Len(gp'.events)] = "message")
             => gp'.timeout_count = 0]_vars

\* A stream that passed on a progress message, after timeouts, and then ended
\* with the timeout error.
C24_Witness ==
    /\ gp.stage = "stream"
    /\ gp.gen = "closed"
    /\ gp.events[Len(gp.events)] = "timeout_error"
    /\ \E i \in 2..Len(gp.events) :
          gp.events[i] = "message" /\ gp.events[i - 1] = "wait_message"


\* ------------------------------------------------------------ _extract_text_from_response (services/llm.py)
\* The characters of '\\n' and '\\r': a backslash, the letters n and r.
BACKSLASH == 92
LETTER_N == 110
LETTER_R == 114

\* The longest response text.
MaxResp == 4

\* str.replace: every occurrence of the two characters a, b, found from left
\* to right without overlap, becomes rep.
RECURSIVE Replace2(_, _, _, _)
Replace2(t, a, b, rep) ==
    IF Len(t) < 2 THEN t
    ELSE IF t[1] = a /\ t[2] = b
    THEN rep \o Replace2(SubSeq(t, 3, Len(t)), a, b, rep)
    ELSE <<t[1]>> \o Replace2(Tail(t), a, b, rep)

\* Lines 49 and 54: result.replace('\\n', '\n').replace('\\r', '')
NormalizeBreaks(t) ==
    Replace2(Replace2(t, BACKSLASH, LETTER_N, <<LF>>), BACKSLASH, LETTER_R, <<>>)

\* A response is given by its shape and a sequence of texts: the blocks of a
\* list, or one text, the value of a str or the str() of another object.
Falsy(shape, content) ==
    IF shape = "list" THEN content = <<>> ELSE content[1] = <<>>

\* Lines 16-55.
extract_text_from_response(shape, content) ==
    IF Falsy(shape, content) THEN <<>>
    ELSE IF shape = "str" THEN content[1]
    ELSE IF shape = "list" THEN NormalizeBreaks(Join(content, <<>>))
    ELSE NormalizeBreaks(content[1])

RespChars == {BACKSLASH, LETTER_N, LETTER_R, PageBody(0)}

RespTexts == UNION {[1..n -> RespChars] : n \in 0..MaxResp}

\* The text t as a response: flat, in blocks cut at k, or as another object.
Responses(t) ==
    {[shape |-> "str", content |-> <<t>>], [shape |-> "other", content |-> <<t>>],
     [shape |-> "list", content |-> <<t>>]}
    \cup {[shape |-> "list",
           content |-> <<SubSeq(t, 1, k), SubSeq(t, k + 1, Len(t))>>] :
            k \in 1..(Len(t) - 1)}
    \cup (IF t = <<>> THEN {[shape |-> "list", content |-> <<>>]} ELSE {})

InitExtract ==
    /\ InitPipeline({}, {}, 0, {})
    /\ \E t \in RespTexts : \E r \in Responses(t) :
         gp = [stage |-> "response", text |-> t, shape |-> r.shape,
               content |-> r.content, result |-> <<>>]

ExtractStep ==
    /\ gp.stage = "response"
    /\ gp' = [gp EXCEPT !.stage = "extracted",
                        !.result = extract_text_from_response(gp.shape, gp.content)]
    /\ UNCHANGED <<threads, docs, budget, pc, loc, cache, last, calls>>

NextExtract == ExtractStep

SpecExtract == InitExtract /\ [][NextExtract]_vars

\* C25: a flat string and a list of blocks carrying the same text give the
\* same result: the text with every backslash-n replaced by a newline and
\* every backslash-r removed.
C25_BothShapesNormalized ==
    (gp.stage = "extracted" /\ gp.shape \in {"str", "list"}) =>
        /\ gp.result = extract_text_from_response("str", <<gp.text>>)
        /\ gp.result = extract_text_from_response("list", <<gp.text>>)
        /\ gp.result = NormalizeBreaks(gp.text)


\* ------------------------------------------------------------ GET /ultimo-relatorio (main.py)
\* The files of /tmp that hold a report: generate names them
\* report_<digest>.txt (process_report_pipeline.py, line 431) and nothing
\* else in the repository writes a .txt file there.
TmpFiles(store) ==
    {[prefix |-> "report_", digest |-> d, content |-> store[d]] :
        d \in {x \in Digests : store[x] # NoFile}}

\* glob.glob("/tmp/<prefix>*.txt")
Glob(files, prefix) == {f \in files : f.prefix = prefix}

\* Lines 736-754: the answers the endpoint can give. The file read is the
\* one of the latest creation time; creation times are not part of the
\* state, so any of the files found may be the one.
obter_ultimo_relatorio(files) ==
    LET arquivos == Glob(files, "relatorio_")
    IN IF arquivos = {} THEN {[status |-> 404, relatorio |-> <<>>]}
       ELSE {[status |-> 200, relatorio |-> ReadText(f.content)] : f \in arquivos}
            \cup {[status |-> 500, relatorio |-> <<>>]}

InitUltimo ==
    /\ InitPipeline({1}, {2, 3}, MaxCalls, {})
    /\ gp = [stage |-> "off", status |-> 0, relatorio |-> <<>>]

UltimoRelatorio ==
    /\ \E a \in obter_ultimo_relatorio(TmpFiles(cache)) :
         gp' = [stage |-> "answered", status |-> a.status, relatorio |-> a.relatorio]
    /\ UNCHANGED <<threads, docs, budget, pc, loc, cache, last, calls>>

NextUltimo == Next \/ UltimoRelatorio

\* The calls of generate of one thread, and requests of the last report at
\* any moment.
SpecUltimo == InitUltimo /\ [][NextUltimo]_vars

\* C26: when the call of generate that ended last has produced and stored
\* a report, a request of the last report is answered with that report (404
\* is answered only when no report was processed).
C26_LastReportServed ==
    [][(gp' # gp /\ last.kind = "returned" /\ last.err = 0 /\ last.writes > 0)
          => /\ gp'.status = 200
             /\ gp'.relatorio = ReadText(cache[Digest(last.pdf)])]_vars

\* C28: generate writes the cache entry only with the cleaned report it then
\* returns, and a call that ends in the error path leaves the store as it
\* was. Stated for the first call of a run that starts with an empty store:
\* when the call has ended, the entry of its PDF holds the report returned,
\* or there is no entry if the call returned an error text or raised.
C28_CacheWrittenOnlyWithReturnedReport ==
    (calls = 1 /\ last.n = 1 /\ pc[1] = "idle" /\ ~last.hit) =>
        LET entry == cache[Digest(last.pdf)]
            is_report == last.kind = "returned" /\ last.err = 0
        IN /\ is_report => entry = WriteText(last.text)
           /\ ~is_report => entry = NoFile


\* ------------------------------------------------------------ the response of /gerar-sentenca (main.py)
\* d.get(key, default)
Get(d, key, default) == IF key \in DOMAIN d THEN d[key] ELSE default

\* Lines 418-427: the Documento of the response made of a document of docs.
Documento(d) ==
    [id |-> Get(d, "id", 0),
     score |-> Get(d, "score", 0),
     rerank_score |-> Get(d, "rerank_score", 0)]

\* Lines 340-440: the answer of the endpoint. `ok` is whether the ruling was
\* generated and the files were saved without an exception; status 400
\* stands for the requests refused (400, or 404 when nothing is found).
gerar_sentenca_endpoint(uploads, buscar_na_base, q, top_k, rerank_top_k, ok) ==
    LET p == PrepareDocs("gerar", uploads, buscar_na_base, q, top_k, rerank_top_k)
    IN IF ~p.called THEN [status |-> 400, docs |-> <<>>, documentos |-> <<>>]
       ELSE IF ~ok THEN [status |-> 500, docs |-> p.docs, documentos |-> <<>>]
       ELSE [status |-> 200, docs |-> p.docs,
             documentos |-> [i \in 1..Len(p.docs) |-> Documento(p.docs[i])]]

InitResposta ==
    /\ InitPipeline({}, {}, 0, {})
    /\ \E q \in GoodQueries, k \in 0..(MaxHits + 1), u \in Uploads,
          b \in BOOLEAN, ok \in BOOLEAN :
         gp = [stage |-> "request", uploads |-> u, buscar_na_base |-> b, q |-> q,
               top_k |-> MaxHits, rerank_top_k |-> k, ok |-> ok,
               status |-> 0, docs |-> <<>>, documentos |-> <<>>]

RespostaStep ==
    /\ gp.stage = "request"
    /\ LET r == gerar_sentenca_endpoint(gp.uploads, gp.buscar_na_base, gp.q,
                                        gp.top_k, gp.rerank_top_k, gp.ok)
       IN gp' = [gp EXCEPT !.stage = "answered", !.status = r.status,
                           !.docs = r.docs, !.documentos = r.documentos]
    /\ UNCHANGED <<threads, docs, budget, pc, loc, cache, last, calls>>

NextResposta == RespostaStep

SpecResposta == InitResposta /\ [][NextResposta]_vars

\* C27: for every document of the response that came from retrieval, the
\* fields score and rerank_score are the retrieval score and the rerank score
\* retrieval attached to it.
C27_ScoresCarriedToResponse ==
    (gp.stage = "answered" /\ gp.status = 200) =>
        \A i \in 1..Len(gp.docs) :
            "score_rerank" \in DOMAIN gp.docs[i] =>
                /\ gp.documentos[i].score = gp.docs[i].score_es
                /\ gp.documentos[i].rerank_score = gp.docs[i].score_rerank


\* ------------------------------------------------------------ verification codes (frontend/auth_tjpe.py)
\* The most codes issued, the most calls of verify_code, the last instant of
\* the clock.
MaxIssued == 2
MaxVerify == 3
MaxClock == 2

\* self.code_timeout (line 19), in instants of the clock.
CodeTimeout == 1

\* E-mail 1 is an approved user of the court's domain, e-mail 2 is not.
Emails == {1, 2}
Approved == {1}
\* The codes generate_verification_code can give (two calls can give the
\* same one, always so with DEBUG_MODE).
CodeValues == {1, 2}
Verifiers == {1, 2}

\* The rows of verification_codes a SELECT of verify_code finds (lines
\* 225-228).
ValidRows(rows, email, code, now) ==
    {i \in 1..Len(rows) : /\ rows[i].email = email /\ rows[i].code = code
                          /\ ~rows[i].used /\ ~rows[i].deleted
                          /\ rows[i].expires_at > now}

\* UPDATE verification_codes SET used = 1 WHERE id = ? (lines 234-238).
MarkUsed(rows, id) == [rows EXCEPT ![id].used = TRUE]

\* DELETE FROM verification_codes WHERE expires_at < now (line 333).
CleanupExpired(rows, now) ==
    [i \in 1..Len(rows) |->
        IF rows[i].expires_at < now THEN [rows[i] EXCEPT !.deleted = TRUE]
        ELSE rows[i]]

\* Lines 198-208, one transaction: the unused codes of the e-mail are marked
\* used and the new code is inserted. The id of a row is its place in rows.
IssueCode(rows, email, code, now) ==
    Append([i \in 1..Len(rows) |->
               IF rows[i].email = email /\ ~rows[i].used /\ ~rows[i].deleted
               THEN [rows[i] EXCEPT !.used = TRUE] ELSE rows[i]],
           [email |-> email, code |-> code, expires_at |-> now + CodeTimeout,
            used |-> FALSE, deleted |-> FALSE])

\* rows: the table; trues[id]: how many calls of verify_code returned True
\* for row id; v[i]: the call of verify_code of session i; creating: the
\* e-mail of the call of create_verification_code that has cleaned up and
\* not yet issued (0: none).
InitCodes ==
    /\ InitPipeline({}, {}, 0, {})
    /\ gp = [stage |-> "codes", rows |-> <<>>, now |-> 0,
             trues |-> [i \in 1..MaxIssued |-> 0],
             v |-> [i \in Verifiers |-> [at |-> "idle", id |-> 0, stale |-> FALSE]],
             creating |-> 0, verified |-> 0]

CodesFrame == UNCHANGED <<threads, docs, budget, pc, loc, cache, last, calls>>

\* create_verification_code, lines 181-188: refused for an e-mail that is
\* not approved, else the expired codes are deleted.
CreateCleanup ==
    /\ gp.stage = "codes"
    /\ gp.creating = 0
    /\ Len(gp.rows) < MaxIssued
    /\ \E e \in Emails :
         gp' = IF e \in Approved
               THEN [gp EXCEPT !.creating = e, !.rows = CleanupExpired(@, gp.now)]
               ELSE gp
    /\ CodesFrame

\* create_verification_code, lines 191-218.
CreateIssue ==
    /\ gp.stage = "codes"
    /\ gp.creating # 0
    /\ \E k \in CodeValues :
         gp' = [gp EXCEPT !.creating = 0,
                          !.rows = IssueCode(@, gp.creating, k, gp.now)]
    /\ CodesFrame

\* verify_code, lines 222-232 and 244-245: the SELECT; False is returned
\* when no row is found.
VerifySelect(i) ==
    /\ gp.stage = "codes"
    /\ gp.v[i].at = "idle"
    /\ gp.verified < MaxVerify
    /\ \E e \in Emails, k \in CodeValues :
         LET found == ValidRows(gp.rows, e, k, gp.now) IN
         IF found = {}
         THEN gp' = [gp EXCEPT !.verified = @ + 1]
         ELSE \E id \in found :
                gp' = [gp EXCEPT !.verified = @ + 1,
                                 !.v[i] = [at |-> "found", id |-> id,
                                           stale |-> \E j \in (id + 1)..Len(gp.rows) :
                                                        gp.rows[j].email = e]]
    /\ CodesFrame

\* verify_code, lines 232-242: the UPDATE by id, the commit, and True.
VerifyUpdate(i) ==
    /\ gp.stage = "codes"
    /\ gp.v[i].at = "found"
    /\ gp' = [gp EXCEPT !.rows = MarkUsed(@, gp.v[i].id),
                        !.trues[gp.v[i].id] = @ + 1,
                        !.v[i] = [at |-> "idle", id |-> 0, stale |-> FALSE]]
    /\ CodesFrame

\* datetime.now() moves on.
TickCodes ==
    /\ gp.stage = "codes"
    /\ gp.now < MaxClock
    /\ gp' = [gp EXCEPT !.now = @ + 1]
    /\ CodesFrame

NextCodes ==
    \/ CreateCleanup
    \/ CreateIssue
    \/ \E i \in Verifiers : VerifySelect(i)
    \/ \E i \in Verifiers : VerifyUpdate(i)
    \/ TickCodes

SpecCodes == InitCodes /\ [][NextCodes]_vars

\* C29: a stored code is accepted by at most one call of verify_code,
\* whatever the interleaving, and a call never finds a code of an e-mail for
\* which a later code has been issued.
C29_CodeSingleUse ==
    gp.stage = "codes" =>
        /\ \A id \in 1..MaxIssued : gp.trues[id] <= 1
        /\ \A i \in Verifiers : ~gp.v[i].stale


\* ------------------------------------------------------------ sessions (frontend/auth_tjpe.py)
\* The most sessions created.
MaxSessions == 2

\* self.session_timeout (line 18), in instants of the clock.
SessionTimeout == 1

\* The e-mails create_session is called with: the same address in lower case
\* and with an upper-case letter, and another address.
SessionEmails == {<<101>>, <<201>>, <<102>>}

NoToken == 0
NoEmail == <<>>

\* Lines 247-274. secrets.token_urlsafe(32) gives a token never given
\* before: the token is the id of the row inserted. The sessions that have
\* expired are deleted first.
create_session(rows, email, now) ==
    Append([i \in 1..Len(rows) |->
               IF rows[i].expires_at < now THEN [rows[i] EXCEPT !.deleted = TRUE]
               ELSE rows[i]],
           [email |-> Lower(email), expires_at |-> now + SessionTimeout,
            deleted |-> FALSE])

\* validate_session with the expiry of the session left out of the query.
ValidateIgnoringExpiry(rows, session_token, now) ==
    IF session_token = NoToken THEN NoEmail
    ELSE IF session_token \in 1..Len(rows) /\ ~rows[session_token].deleted
    THEN rows[session_token].email
    ELSE NoEmail

\* Lines 276-292: the e-mail of the session, or None.
validate_session(rows, session_token, now) ==
    IF session_token = NoToken THEN NoEmail
    ELSE IF /\ session_token \in 1..Len(rows)
            /\ ~rows[session_token].deleted
            /\ rows[session_token].expires_at > now
    THEN rows[session_token].email
    ELSE NoEmail

\* Lines 294-302.
logout(rows, session_token) ==
    [i \in 1..Len(rows) |->
        IF i = session_token THEN [rows[i] EXCEPT !.deleted = TRUE] ELSE rows[i]]

\* rows: the table active_sessions; made[t]: the e-mail create_session was
\* called with when it returned token t, and when; out: the tokens passed to
\* logout; st: the session_token of st.session_state (NoToken: none);
\* validated: the call of validate_session just made; ran: whether the
\* protected function has just run, and with which token.
NoValidation == [token |-> NoToken, result |-> NoEmail]
NoRun == [ran |-> FALSE, token |-> NoToken]

InitSessions ==
    /\ InitPipeline({}, {}, 0, {})
    /\ gp = [stage |-> "sessions", rows |-> <<>>, made |-> <<>>, out |-> {},
             now |-> 0, st |-> NoToken, validated |-> NoValidation, ran |-> NoRun]

SessionsFrame == UNCHANGED <<threads, docs, budget, pc, loc, cache, last, calls>>

\* show_login_page, lines 458-470: the code was verified, the session is
\* created and its token kept in st.session_state.
Login ==
    /\ gp.stage = "sessions"
    /\ Len(gp.rows) < MaxSessions
    /\ \E e \in SessionEmails :
         gp' = [gp EXCEPT !.rows = create_session(@, e, gp.now),
                          !.made = Append(@, [email |-> e, at |-> gp.now]),
                          !.st = Len(gp.rows) + 1,
                          !.validated = NoValidation, !.ran = NoRun]
    /\ SessionsFrame

\* A call of validate_session with any token, known or not.
ValidateCall ==
    /\ gp.stage = "sessions"
    /\ \E t \in 0..(MaxSessions + 1) :
         gp' = [gp EXCEPT !.validated = [token |-> t,
                                         result |-> validate_session(gp.rows, t, gp.now)],
                          !.ran = NoRun]
    /\ SessionsFrame

\* A call of logout with any token; out keeps the tokens create_session has
\* returned before the call.
LogoutCall ==
    /\ gp.stage = "sessions"
    /\ \E t \in 1..(MaxSessions + 1) :
         gp' = [gp EXCEPT !.rows = logout(@, t),
                          !.out = @ \cup ({t} \cap (1..Len(gp.made))),
                          !.validated = NoValidation, !.ran = NoRun]
    /\ SessionsFrame

\* show_user_menu, lines 509-519: the button of the menu, shown in a run
\* check_authentication has accepted.
LogoutButton ==
    /\ gp.stage = "sessions"
    /\ gp.st # NoToken
    /\ validate_session(gp.rows, gp.st, gp.now) # NoEmail
    /\ gp' = [gp EXCEPT !.rows = logout(@, gp.st), !.out = @ \cup {gp.st},
                        !.st = NoToken,
                        !.validated = NoValidation, !.ran = NoRun]
    /\ SessionsFrame

\* check_authentication, lines 377-393.
check_authentication(rows, token, now) ==
    token # NoToken /\ validate_session(rows, token, now) # NoEmail

\* require_authentication's wrapper, lines 579-590: one run of the script.
\* The application function runs when check_authentication accepts, else
\* the login page is shown.
RunWrapper ==
    /\ gp.stage = "sessions"
    /\ gp' = [gp EXCEPT !.ran = [ran |-> check_authentication(gp.rows, gp.st, gp.now),
                                 token |-> gp.st],
                        !.validated = NoValidation]
    /\ SessionsFrame

\* datetime.now() moves on.
TickSessions ==
    /\ gp.stage = "sessions"
    /\ gp.now < MaxClock
    /\ gp' = [gp EXCEPT !.now = @ + 1, !.validated = NoValidation, !.ran = NoRun]
    /\ SessionsFrame

NextSessions ==
    Login \/ ValidateCall \/ LogoutCall \/ LogoutButton \/ RunWrapper \/ TickSessions

SpecSessions == InitSessions /\ [][NextSessions]_vars

\* Token t is one create_session returned, not passed to logout since, and
\* not older than the timeout.
LiveToken(t) ==
    /\ t \in 1..Len(gp.made)
    /\ t \notin gp.out
    /\ gp.now < gp.made[t].at + SessionTimeout

\* C30 as stated: validate_session(t) returns e only if t was returned by
\* create_session(e), was not passed to logout since and has not expired.
C30_ValidatedEmailIsTheOneGiven ==
    (gp.stage = "sessions" /\ gp.validated.result # NoEmail) =>
        /\ LiveToken(gp.validated.token)
        /\ gp.validated.result = gp.made[gp.validated.token].email

\* C30, amended: validate_session(t) returns the lower-cased e only if t was
\* returned by create_session(e), was not passed to logout since and has not
\* expired; after logout(t) it returns None for t; the protected function
\* runs only with a token validate_session accepts.
C30_SessionSafety ==
    gp.stage = "sessions" =>
        /\ gp.validated.result # NoEmail =>
              /\ LiveToken(gp.validated.token)
              /\ gp.validated.result = Lower(gp.made[gp.validated.token].email)
        /\ gp.validated.token \in gp.out => gp.validated.result = NoEmail
        /\ gp.ran.ran =>
              /\ LiveToken(gp.ran.token)
              /\ validate_session(gp.rows, gp.ran.token, gp.now) # NoEmail

\* A session created with an e-mail that has an upper-case letter is
\* validated, after a logout of some token.
C30_Witness ==
    /\ gp.stage = "sessions"
    /\ gp.validated.result # NoEmail
    /\ gp.made[gp.validated.token].email = <<201>>
    /\ gp.out # {}

====
